---- MODULE Spec2Model ----
(***************************************************************************)
(* A model of the mail-service verification scripts:                       *)
(*   scripts/ws/simple_debug.py              (script "debug")              *)
(*   scripts/send_test_email.py              (script "inject")             *)
(*   scripts/ws/test_frontend_websocket.py   (script "push")               *)
(*   scripts/ws/test_websocket_validation.py (script "valid")              *)
(*   scripts/ws/manual_websocket_test.py     (script "manual")             *)
(* plus a stand-alone run of simple_debug.check_services (script "health") *)
(* in which the health responses vary field by field.                      *)
(*                                                                         *)
(* The mail service is a black box: every HTTP response and every SMTP     *)
(* outcome is chosen by the environment from a bounded set of shapes.      *)
(***************************************************************************)
EXTENDS Integers, Sequences, FiniteSets, TLC

--------------------------------------------------------------------------
(* Bounds of the model                                                     *)

\* the largest number of messages a retrieval response carries
MaxK == 2
\* the largest --multiple given to send_test_email.py
MaxMultiple == 3
\* the most sockets the operator opens in the probe page
MaxSockets == 2
\* the most subscribe requests the probe page emits
MaxEmits == 2

(* Program constants                                                       *)

\* {24} in mongo_id_pattern
IdLen == 24
\* for i in range(10): time.sleep(1)
WaitSeconds == 10
\* for i in range(3) in test_frontend_websocket.main
PushMails == 3

--------------------------------------------------------------------------
(* JSON values as the scripts see them                                     *)

HexChars == {"0", "1", "2", "3", "4", "5", "6", "7", "8", "9",
             "a", "b", "c", "d", "e", "f", "A", "B", "C", "D", "E", "F"}

\* n copies of character c
Rep(c, n) == [i \in 1..n |-> c]

\* a JSON string identifier, and a JSON number in the id field
StrId(s) == [t |-> "str", s |-> s]
IntId == [t |-> "int", s |-> <<>>]
NoId == [t |-> "none", s |-> <<>>]

\* identifiers the issuance service may hand out: right length, too short,
\* too long, a non-hex character at the front, in the middle and at the end,
\* upper case, a trailing line feed, two of them, a leading one, the empty
\* string, a backslash in front of the 24 characters
IdSamples ==
    { Rep("a", IdLen), Rep("9", IdLen), Rep("F", IdLen),
      Rep("a", IdLen - 1), Rep("a", IdLen + 1),
      <<"g">> \o Rep("a", IdLen - 1),
      Rep("a", IdLen - 1) \o <<"g">>,
      Rep("a", 12) \o <<"-">> \o Rep("a", IdLen - 13),
      Rep("a", IdLen) \o <<"LF">>,
      Rep("a", IdLen - 1) \o <<"LF">>,
      Rep("a", IdLen) \o <<"LF", "LF">>,
      <<"LF">> \o Rep("a", IdLen),
      <<>>,
      <<"\\">> \o Rep("a", IdLen) }

Addresses == {"addr1", "addr2"}
Tokens == {"tok1", "tok2"}

Scripts == {"health", "debug", "inject", "push", "valid", "manual"}

\* the identifiers explored per script: the format check of script "valid"
\* sees every sample; the others treat the identifier as opaque
IdsOf(s) ==
    IF s = "valid"
    THEN {StrId(x) : x \in IdSamples} \cup {IntId}
    ELSE IF s = "push" THEN {StrId(Rep("a", IdLen))}
    ELSE {StrId(Rep("a", IdLen)), StrId(Rep("9", IdLen))}

StatusCodes == {200, 201, 202, 204, 404, 500}

\* response of POST /api/mailbox/generate.  net = "error": requests raised.
\* json: what response.json() gives ("invalid": it raises).  success: the
\* envelope's success member.  data: "absent", "null" or "dict"; has: the
\* members the data object holds.
\* the data object of an envelope: absent members carry a fixed filler
DataObjects(s) ==
    { [has |-> {"address", "id", "token"}, address |-> a, id |-> i, token |-> t] :
         a \in Addresses, i \in IdsOf(s), t \in Tokens }
    \cup
    { [has |-> h, address |-> "addr1", id |-> StrId(Rep("a", IdLen)), token |-> "tok1"] :
         h \in (SUBSET {"address", "id", "token"}) \ {{"address", "id", "token"}} }

ProvisionBodies(s) ==
    { [json |-> j, success |-> "absent", data |-> "absent", has |-> {},
       address |-> "addr1", id |-> NoId, token |-> "tok1"] : j \in {"invalid", "list"} }
    \cup
    { [json |-> "dict", success |-> sc, data |-> d, has |-> {},
       address |-> "addr1", id |-> NoId, token |-> "tok1"] :
         sc \in {"absent", "true", "false"}, d \in {"absent", "null"} }
    \cup
    { [json |-> "dict", success |-> sc, data |-> "dict", has |-> o.has,
       address |-> o.address, id |-> o.id, token |-> o.token] :
         sc \in {"absent", "true", "false"}, o \in DataObjects(s) }

ProvisionResponses(s) ==
    { [net |-> "error", status |-> 0, body |-> b] :
         b \in { x \in ProvisionBodies(s) : x.json = "invalid" } }
    \cup
    { [net |-> "ok", status |-> st, body |-> b] :
         st \in StatusCodes, b \in ProvisionBodies(s) }

\* Python's None for a mailbox, and a mailbox dictionary
None == [some |-> FALSE, address |-> "", mailboxId |-> NoId, token |-> ""]
Mailbox(a, i, t) == [some |-> TRUE, address |-> a, mailboxId |-> i, token |-> t]

\* a status test that takes every 2xx code
StatusAccepted_Any2xx(st) == st \in 200..299

\* response.status_code in [200, 201]
StatusAccepted(st) == st \in {200, 201}

\* result.get("success") and "data" in result, for a parsed body.
\* "raise": result is no dict, so .get raises AttributeError.
EnvelopeTest(b) ==
    IF b.json # "dict" THEN "raise"
    ELSE IF b.success = "true" /\ b.data # "absent" THEN "yes" ELSE "no"

\* data["address"], data["id"], data["token"] all succeed
MembersPresent(b) == b.data = "dict" /\ b.has = {"address", "id", "token"}

\* simple_debug.create_mailbox: the value returned and the line printed
create_mailbox(r) ==
    IF r.net = "error" THEN [mailbox |-> None, msg |-> "exception"]
    ELSE IF ~StatusAccepted(r.status) THEN [mailbox |-> None, msg |-> "http_error"]
    ELSE IF r.body.json = "invalid" THEN [mailbox |-> None, msg |-> "exception"]
    ELSE IF EnvelopeTest(r.body) = "raise" THEN [mailbox |-> None, msg |-> "exception"]
    ELSE IF EnvelopeTest(r.body) = "no" THEN [mailbox |-> None, msg |-> "api_error"]
    ELSE IF ~MembersPresent(r.body) THEN [mailbox |-> None, msg |-> "exception"]
    ELSE [mailbox |-> Mailbox(r.body.address, r.body.id, r.body.token),
          msg |-> "created"]

--------------------------------------------------------------------------
(* Retrieval: GET /api/mail/{id}                                           *)

\* json: "invalid" (json() raises), "dict", "list" (bare array), "scalar".
\* data: the type of the envelope's data member; n: the length of whatever
\* carries the messages (the bare array, or data when it has a length).
RetrievalBodies ==
    { [json |-> j, success |-> "absent", data |-> "absent", n |-> 0] :
         j \in {"invalid", "scalar"} }
    \cup
    { [json |-> "list", success |-> "absent", data |-> "absent", n |-> k] :
         k \in 0..MaxK }
    \cup
    { [json |-> "dict", success |-> sc, data |-> "absent", n |-> 0] :
         sc \in {"absent", "true", "false"} }
    \cup
    { [json |-> "dict", success |-> sc, data |-> d, n |-> k] :
         sc \in {"absent", "true", "false"},
         d \in {"list", "str", "dict"}, k \in 0..MaxK }
    \cup
    { [json |-> "dict", success |-> sc, data |-> d, n |-> 0] :
         sc \in {"absent", "true", "false"}, d \in {"null", "int"} }

RetrievalResponses ==
    { [net |-> "error", status |-> 0, body |-> b] :
         b \in { x \in RetrievalBodies : x.json = "invalid" } }
    \cup
    { [net |-> "ok", status |-> st, body |-> b] :
         st \in {200, 201, 401, 500}, b \in RetrievalBodies }

\* what check_mailbox_emails returns: a list of n messages, or the data
\* member itself when that is a string or an object
Emails(kind, n) == [kind |-> kind, n |-> n]
EmptyList == Emails("list", 0)

\* len(x) is defined
HasLen(kind) == kind \in {"list", "str", "dict"}

\* simple_debug.check_mailbox_emails
check_mailbox_emails(r) ==
    IF r.net = "error" THEN EmptyList
    ELSE IF r.status # 200 THEN EmptyList
    ELSE IF r.body.json = "invalid" THEN EmptyList
    ELSE IF r.body.json # "dict" THEN EmptyList
    ELSE IF r.body.success = "true" /\ r.body.data # "absent"
         THEN IF HasLen(r.body.data) THEN Emails(r.body.data, r.body.n)
              ELSE EmptyList
    ELSE EmptyList

--------------------------------------------------------------------------
(* SMTP                                                                    *)

\* one smtplib session: SMTP(...) raises, sendmail raises, quit raises
\* after the message was accepted, or all three calls return
SmtpOutcomes == {"ok", "connect_fail", "sendmail_fail", "quit_fail"}

\* the outcomes explored per script: the three-message loop of script "push"
\* treats every raise alike, so one failing outcome stands for the three
SmtpOutcomesOf(s) ==
    IF s = "push" THEN {"ok", "sendmail_fail"} ELSE SmtpOutcomes

\* the try block ran to its end
SmtpSucceeded(o) == o = "ok"

--------------------------------------------------------------------------
(* Health                                                                  *)

\* services of check_services, in the dictionary's order
Services == <<"backend", "mail", "websocket", "integration">>

\* the members read per service, and the default given to .get
FieldsOf(s) ==
    CASE s = "mail" -> {"isRunning", "port"}
      [] s = "websocket" -> {"connectedClients", "totalSubscriptions"}
      [] s = "integration" -> {"isHealthy", "totalMails",
                               "successfulBroadcasts", "failedBroadcasts"}
      [] OTHER -> {}

AllFields == FieldsOf("mail") \cup FieldsOf("websocket") \cup FieldsOf("integration")

DefaultOf(f) ==
    CASE f = "port" -> "unknown"
      [] f \in {"isRunning", "isHealthy"} -> "False"
      [] OTHER -> "0"

\* a health response: section is the service's sub-object ("absent" or
\* "dict"), has the members it holds.  full: every shape (the stand-alone run
\* of check_services); otherwise the well-formed body under each status
HealthBodies(s, full) ==
    { [json |-> "dict", section |-> "dict", has |-> FieldsOf(s)] }
    \cup
    IF full
    THEN { [json |-> j, section |-> "absent", has |-> {}] : j \in {"invalid", "list"} }
         \cup { [json |-> "dict", section |-> "absent", has |-> {}] }
         \cup { [json |-> "dict", section |-> "dict", has |-> h] : h \in SUBSET FieldsOf(s) }
    ELSE {}

HealthResponses(s, full) ==
    { [net |-> "error", status |-> 0, body |-> b] :
         b \in { x \in HealthBodies(s, TRUE) : x.json = "invalid" } }
    \cup
    { [net |-> "ok", status |-> st, body |-> b] :
         st \in {200, 500}, b \in HealthBodies(s, full) }

\* what one iteration of check_services prints for a service: ok (the
\* "normal" line), err (the failure line: "none", "http", "exception"),
\* shown (the value printed per member, "-" when the line is not printed)
NotShown == [f \in AllFields |-> "-"]
Line(ok, err, shown) == [ok |-> ok, err |-> err, shown |-> shown]
NoLine == Line(FALSE, "none", NotShown)

Shown(s, b) ==
    [f \in AllFields |->
        IF f \notin FieldsOf(s) THEN "-"
        ELSE IF b.section = "dict" /\ f \in b.has THEN "value"
        ELSE DefaultOf(f)]

check_one(s, r) ==
    IF r.net = "error" THEN Line(FALSE, "exception", NotShown)
    ELSE IF r.status # 200 THEN Line(FALSE, "http", NotShown)
    ELSE IF r.body.json = "invalid" THEN Line(FALSE, "exception", NotShown)
    ELSE IF FieldsOf(s) = {} THEN Line(TRUE, "none", NotShown)
    ELSE IF r.body.json # "dict" THEN Line(TRUE, "exception", NotShown)
    ELSE Line(TRUE, "none", Shown(s, r.body))

--------------------------------------------------------------------------
(* The identifier format check of test_websocket_validation.py             *)

\* [0-9a-fA-F]
IsHexChar(c) == c \in HexChars

\* [0-9a-fA-F]{n} from position pos: the position after the run, 0 if the
\* run is shorter than n
RECURSIVE HexRun(_, _, _)
HexRun(s, pos, n) ==
    IF n = 0 THEN pos
    ELSE IF pos <= Len(s) /\ IsHexChar(s[pos]) THEN HexRun(s, pos + 1, n - 1)
    ELSE 0

\* $ of Python's re without MULTILINE: at the end of the string, or just
\* before a line feed that ends the string
DollarAt(s, pos) ==
    \/ pos = Len(s) + 1
    \/ pos = Len(s) /\ s[pos] = "LF"

\* re.match(r"^[0-9a-fA-F]{24}$", mailbox_id) for a string
re_match(s) ==
    LET p == HexRun(s, 1, IdLen) IN p # 0 /\ DollarAt(s, p)

\* test_mailbox_id_format: the value returned and the lines printed, in
\* order.  The "created" block is printed line by line, so len(mailbox_id)
\* raising for a number leaves the first lines on the output.
test_mailbox_id_format(r) ==
    IF r.net = "error" THEN [mailbox |-> None, msgs |-> <<"exception">>]
    ELSE IF ~StatusAccepted(r.status) THEN [mailbox |-> None, msgs |-> <<"http_error">>]
    ELSE IF r.body.json # "dict" THEN [mailbox |-> None, msgs |-> <<"exception">>]
    ELSE IF r.body.success # "true" THEN [mailbox |-> None, msgs |-> <<"api_error">>]
    ELSE IF ~MembersPresent(r.body) THEN [mailbox |-> None, msgs |-> <<"exception">>]
    ELSE IF r.body.id.t # "str" THEN [mailbox |-> None, msgs |-> <<"created", "exception">>]
    ELSE [mailbox |-> Mailbox(r.body.address, r.body.id, r.body.token),
          msgs |-> <<"created",
                     IF re_match(r.body.id.s) THEN "id_ok" ELSE "id_bad">>]

\* test_frontend_websocket.main, step 1: the inline provisioning
push_provision(r) ==
    IF r.net = "error" THEN [mailbox |-> None, msg |-> "exception"]
    ELSE IF ~StatusAccepted(r.status) THEN [mailbox |-> None, msg |-> "http_error"]
    ELSE IF r.body.json # "dict" THEN [mailbox |-> None, msg |-> "exception"]
    ELSE IF ~(r.body.success = "true" /\ r.body.data # "absent")
         THEN [mailbox |-> None, msg |-> "create_failed"]
    ELSE IF ~MembersPresent(r.body) THEN [mailbox |-> None, msg |-> "exception"]
    ELSE [mailbox |-> Mailbox(r.body.address, r.body.id, r.body.token),
          msg |-> "created"]

\* a response not yet received
NoResponse == [net |-> "none", status |-> 0]

--------------------------------------------------------------------------
(* State                                                                   *)

VARIABLES
    script,         \* which script runs
    pc,             \* the position of its main
    svc,            \* check_services: index of the next service
    report,         \* check_services: what was printed per service
    gets,           \* check_services: GETs issued per service
    healthResp,     \* check_services: the response each GET received
    provResp,       \* the response of the issuance call
    mailbox,        \* the mailbox dictionary, or None
    out,            \* the lines main has printed, in order
    smtpLog,        \* the SMTP sessions opened, in order
    getLog,         \* the retrieval calls made, in order
    waited,         \* simple_debug.main: seconds slept before the retrieval
    mailResp,       \* the response of the retrieval call
    emails,         \* simple_debug.main: what check_mailbox_emails returned
    multiple,       \* send_test_email.py: args.multiple
    html,           \* send_test_email.py: args.html
    i,              \* the loop variable of the sending loop
    success_count,  \* send_test_email.py: success_count
    page,           \* the probe page: its constants MAILBOX_ID and TOKEN
    socket,         \* probe page: let socket (0 is null)
    isConnected,    \* probe page: let isConnected
    conn,           \* the state of every socket the page has created
    confirmed,      \* connectionEstablished was received on the current socket
    emitted,        \* the subscribe requests emitted, in order
    subscribed,     \* the server holds a subscription of the current socket
    refused         \* the last subscribe() click logged "connect first"

vars == <<script, pc, svc, report, gets, healthResp, provResp, mailbox, out,
          smtpLog, getLog, waited, mailResp, emails, multiple, html, i,
          success_count, page, socket, isConnected, conn, confirmed, emitted,
          subscribed, refused>>

pageVars == <<page, socket, isConnected, conn, confirmed, emitted, subscribed,
              refused>>

healthVars == <<svc, report, gets, healthResp>>
debugVars == <<waited, mailResp, emails, getLog>>
injectVars == <<multiple, html, success_count>>

\* an SMTP session: recipient, subject (text and the index appended to it,
\* 0 for none), and how the session ended
Session(to, subj, idx, o) == [to |-> to, subject |-> subj, idx |-> idx, outcome |-> o]

\* a retrieval call: the identifier in the URL and the bearer token
Retrieval(id, t) == [id |-> id, token |-> t]

\* no page is open; a page generated for (or filled in with) a mailbox:
\* MAILBOX_ID and TOKEN hold the text put between the quotes of the two
\* constants
NoPage == [ready |-> FALSE, MAILBOX_ID |-> NoId, TOKEN |-> ""]
PageFor(id, t) == [ready |-> TRUE, MAILBOX_ID |-> id, TOKEN |-> t]

StartOf(s) ==
    CASE s \in {"health", "debug"} -> "services"
      [] s = "inject" -> "loop"
      [] s = "manual" -> "input"
      [] OTHER -> "create"

Init ==
    /\ script \in Scripts
    /\ pc = StartOf(script)
    /\ svc = 1
    /\ report = [k \in 1..Len(Services) |-> NoLine]
    /\ gets = [k \in 1..Len(Services) |-> 0]
    /\ healthResp = [k \in 1..Len(Services) |-> NoResponse]
    /\ provResp = NoResponse
    /\ mailbox = None
    /\ out = <<>>
    /\ smtpLog = <<>>
    /\ getLog = <<>>
    /\ waited = 0
    /\ mailResp = NoResponse
    /\ emails = EmptyList
    /\ multiple \in IF script = "inject" THEN (-1)..MaxMultiple ELSE {0}
    /\ html \in IF script = "inject" THEN BOOLEAN ELSE {FALSE}
    /\ i = 0
    /\ success_count = 0
    /\ page = NoPage
    /\ socket = 0
    /\ isConnected = FALSE
    /\ conn = [k \in 1..MaxSockets |-> "unused"]
    /\ confirmed = FALSE
    /\ emitted = <<>>
    /\ subscribed = FALSE
    /\ refused = FALSE

--------------------------------------------------------------------------
(* simple_debug.py                                                         *)

\* a try/except around the whole loop: the first exception ends it
LoopContinues_UntilException(line) == line.err # "exception"

\* the try/except sits inside the for loop of check_services: whatever an
\* iteration printed, the loop goes on to the next service
LoopContinues(line) == TRUE

\* one iteration of the loop of check_services: one GET, one report
CheckService ==
    /\ script \in {"health", "debug"}
    /\ pc = "services"
    /\ svc <= Len(Services)
    /\ \E r \in HealthResponses(Services[svc], script = "health") :
          LET line == check_one(Services[svc], r) IN
          /\ report' = [report EXCEPT ![svc] = line]
          /\ healthResp' = [healthResp EXCEPT ![svc] = r]
          /\ pc' = IF svc = Len(Services) \/ ~LoopContinues(line)
                   THEN (IF script = "debug" THEN "create" ELSE "done")
                   ELSE "services"
    /\ gets' = [gets EXCEPT ![svc] = @ + 1]
    /\ svc' = svc + 1
    /\ UNCHANGED <<script, provResp, mailbox, out, smtpLog, debugVars, injectVars, pageVars, i>>

\* main without the return after a failed create_mailbox
AfterCreate_NoReturn(mb) == "send"

\* main, step 2: "if not mailbox: print(terminated); return"
AfterCreate(mb) == IF mb.some THEN "send" ELSE "done"

\* main, step 2: create_mailbox() and the test of its result
DebugCreate ==
    /\ script = "debug"
    /\ pc = "create"
    /\ \E r \in ProvisionResponses(script) :
          LET res == create_mailbox(r) IN
          /\ provResp' = r
          /\ mailbox' = res.mailbox
          /\ out' = out \o <<res.msg>> \o
                       (IF AfterCreate(res.mailbox) = "done" THEN <<"terminated">> ELSE <<>>)
          /\ pc' = AfterCreate(res.mailbox)
    /\ UNCHANGED <<script, healthVars, smtpLog, debugVars, injectVars, pageVars, i>>

\* simple_debug.send_test_email: True when the session ran to its end
debug_send_test_email(o) == SmtpSucceeded(o)

\* main going on after a failed send
SendFailureReturns_No == FALSE

\* main, step 3: whether "if not send_test_email(...)" returns from main
SendFailureReturns == TRUE

\* a recipient that does not come from the mailbox of the run
DebugRecipient_Fixed(mb) == "addr1"

\* main: mailbox_address = mailbox["address"], handed to send_test_email
DebugRecipient(mb) == mb.address

\* main: check_mailbox_emails(mailbox["mailboxId"], mailbox["token"]): the
\* identifier goes into the URL, the token into the Authorization header
DebugRetrieval(mb) == Retrieval(mb.mailboxId, mb.token)

\* main, step 3
DebugSend ==
    /\ script = "debug"
    /\ pc = "send"
    /\ \E o \in SmtpOutcomes :
          /\ smtpLog' = Append(smtpLog, Session(DebugRecipient(mailbox), "debug", 0, o))
          /\ IF debug_send_test_email(o)
             THEN /\ out' = Append(out, "sent")
                  /\ pc' = "wait"
             ELSE IF SendFailureReturns
             THEN /\ out' = out \o <<"send_failed", "terminated">>
                  /\ pc' = "done"
             ELSE /\ out' = Append(out, "send_failed")
                  /\ pc' = "wait"
    /\ UNCHANGED <<script, healthVars, provResp, mailbox, debugVars, injectVars, pageVars, i>>

\* a wait that is left after its first sleep
AfterSleep_PollAtOnce(w) == "check"

\* main, step 4: the loop "for i in range(10)" ends after the tenth sleep,
\* and only then comes step 5
AfterSleep(w) == IF w = WaitSeconds THEN "check" ELSE "wait"

\* main, step 4: one time.sleep(1) of the ten; no network call is made
DebugWait ==
    /\ script = "debug"
    /\ pc = "wait"
    /\ waited < WaitSeconds
    /\ waited' = waited + 1
    /\ pc' = AfterSleep(waited + 1)
    /\ UNCHANGED <<script, healthVars, provResp, mailbox, out, smtpLog, getLog,
                   mailResp, emails, injectVars, pageVars, i>>

\* main, step 5: the one call of check_mailbox_emails
DebugCheck ==
    /\ script = "debug"
    /\ pc = "check"
    /\ \E r \in RetrievalResponses :
          /\ mailResp' = r
          /\ emails' = check_mailbox_emails(r)
    /\ getLog' = Append(getLog, DebugRetrieval(mailbox))
    /\ pc' = "summary"
    /\ UNCHANGED <<script, healthVars, provResp, mailbox, out, smtpLog, waited,
                   injectVars, pageVars, i>>

\* main, step 6: the result block
DebugSummary ==
    /\ script = "debug"
    /\ pc = "summary"
    /\ out' = out \o <<"summary", IF emails.n > 0 THEN "received" ELSE "not_received">>
    /\ pc' = "done"
    /\ UNCHANGED <<script, healthVars, provResp, mailbox, smtpLog, debugVars,
                   injectVars, pageVars, i>>

--------------------------------------------------------------------------
(* send_test_email.py                                                      *)

\* the recipient given on the command line
ArgEmail == "addr1"

\* send_test_email / send_html_email: True when the session ran to its end
send_test_email(o) == SmtpSucceeded(o)

\* the subject of iteration k (0-based): text and appended index
SubjectOf(isHtml, n, k) ==
    IF isHtml THEN [text |-> "html_fixed", idx |-> 0]
    ELSE IF n > 1 THEN [text |-> "arg", idx |-> k + 1]
    ELSE [text |-> "arg", idx |-> 0]

\* a count that ignores the result of the send
CountAfter_Always(count, success) == count + 1

\* success_count after an iteration
CountAfter(count, success) == IF success THEN count + 1 ELSE count

\* main: one iteration of "for i in range(args.multiple)"
InjectSend ==
    /\ script = "inject"
    /\ pc = "loop"
    /\ i < multiple
    /\ \E o \in SmtpOutcomes :
          LET subj == SubjectOf(html, multiple, i) IN
          /\ smtpLog' = Append(smtpLog, Session(ArgEmail, subj.text, subj.idx, o))
          /\ success_count' = CountAfter(success_count, send_test_email(o))
    /\ i' = i + 1
    /\ UNCHANGED <<script, pc, healthVars, provResp, mailbox, out, debugVars,
                   multiple, html, pageVars>>

\* main: the loop is over; the count is printed
InjectReport ==
    /\ script = "inject"
    /\ pc = "loop"
    /\ i >= multiple
    /\ out' = Append(out, "report")
    /\ pc' = "done"
    /\ UNCHANGED <<script, healthVars, provResp, mailbox, smtpLog, debugVars,
                   injectVars, pageVars, i>>

--------------------------------------------------------------------------
(* test_frontend_websocket.py                                              *)

\* main without the input() call
AfterProvision_NoInput(mb) == IF mb.some THEN "loop" ELSE "done"

\* main, steps 1 and 2: return on a failed provisioning; otherwise print the
\* test steps and block in input()
AfterProvision(mb) == IF mb.some THEN "input" ELSE "done"

PushCreate ==
    /\ script = "push"
    /\ pc = "create"
    /\ \E r \in ProvisionResponses(script) :
          LET res == push_provision(r) IN
          /\ provResp' = r
          /\ mailbox' = res.mailbox
          /\ out' = out \o <<res.msg>> \o
                       (IF res.mailbox.some THEN <<"instructions">> ELSE <<>>)
          /\ pc' = AfterProvision(res.mailbox)
    /\ UNCHANGED <<script, healthVars, smtpLog, debugVars, injectVars, i, pageVars>>

\* the operator opens the probe page and gives it the printed identifier
\* and token.  The probe is taken to be the page test_websocket_validation
\* generates: main only names the page and never talks to it.
PushOpenPage ==
    /\ script = "push"
    /\ pc \notin {"create", "done"}
    /\ ~page.ready
    /\ page' = PageFor(mailbox.mailboxId, mailbox.token)
    /\ UNCHANGED <<script, pc, healthVars, provResp, mailbox, out, smtpLog,
                   debugVars, injectVars, i, socket, isConnected, conn,
                   confirmed, emitted, subscribed, refused>>

\* input("...") returns: the operator pressed Enter
PushEnter ==
    /\ script = "push"
    /\ pc = "input"
    /\ out' = Append(out, "enter")
    /\ pc' = "loop"
    /\ UNCHANGED <<script, healthVars, provResp, mailbox, smtpLog, debugVars,
                   injectVars, i, pageVars>>

\* main, step 3: one iteration of "for i in range(3)"
PushSend ==
    /\ script = "push"
    /\ pc = "loop"
    /\ i < PushMails
    /\ \E o \in SmtpOutcomesOf(script) :
          /\ smtpLog' = Append(smtpLog, Session(mailbox.address, "push", i + 1, o))
          /\ out' = Append(out, IF SmtpSucceeded(o) THEN "sent" ELSE "send_failed")
    /\ i' = i + 1
    /\ pc' = IF i + 1 = PushMails THEN "health" ELSE "loop"
    /\ UNCHANGED <<script, healthVars, provResp, mailbox, debugVars, injectVars,
                   pageVars>>

\* the members main prints of /health/integration, and what is printed for
\* an absent one
PushFields == {"isHealthy", "totalMails", "successfulBroadcasts",
               "failedBroadcasts", "successRate"}

PushDefaultOf(f) ==
    CASE f = "isHealthy" -> "abnormal"
      [] f = "successRate" -> "0%"
      [] OTHER -> "0"

\* main, step 4: the integration status block
push_check_integration(r) ==
    IF r.net = "error" THEN Line(FALSE, "exception", NotShown)
    ELSE IF r.status # 200 THEN Line(FALSE, "http", NotShown)
    ELSE IF r.body.json # "dict" THEN Line(FALSE, "exception", NotShown)
    ELSE Line(TRUE, "none",
              [f \in AllFields |->
                  IF f \notin PushFields THEN "-"
                  ELSE IF r.body.section = "dict" /\ f \in r.body.has THEN "value"
                  ELSE PushDefaultOf(f)])

PushHealth ==
    /\ script = "push"
    /\ pc = "health"
    /\ \E r \in HealthResponses("integration", FALSE) :
          /\ report' = [report EXCEPT ![4] = push_check_integration(r)]
          /\ healthResp' = [healthResp EXCEPT ![4] = r]
    /\ gets' = [gets EXCEPT ![4] = @ + 1]
    /\ pc' = "final"
    /\ UNCHANGED <<script, svc, provResp, mailbox, out, smtpLog, debugVars,
                   injectVars, i, pageVars>>

\* main, step 5: the closing notes
PushFinal ==
    /\ script = "push"
    /\ pc = "final"
    /\ out' = Append(out, "complete")
    /\ pc' = "done"
    /\ UNCHANGED <<script, healthVars, provResp, mailbox, smtpLog, debugVars,
                   injectVars, i, pageVars>>

--------------------------------------------------------------------------
(* manual_websocket_test.py                                                *)

\* test_address: a fixed address; the script provisions no mailbox
ManualAddress == "websockettest@127.0.0.1"

\* for i in range(3) in manual_websocket_test.main
ManualMails == 3

\* main: the notes are printed and input() returns
ManualEnter ==
    /\ script = "manual"
    /\ pc = "input"
    /\ out' = out \o <<"instructions", "enter">>
    /\ pc' = "loop"
    /\ UNCHANGED <<script, healthVars, provResp, mailbox, smtpLog, debugVars,
                   injectVars, i, pageVars>>

\* main: one iteration of "for i in range(3)", its try/except inside
ManualSend ==
    /\ script = "manual"
    /\ pc = "loop"
    /\ i < ManualMails
    /\ \E o \in SmtpOutcomes :
          /\ smtpLog' = Append(smtpLog, Session(ManualAddress, "manual", i + 1, o))
          /\ out' = Append(out, IF SmtpSucceeded(o) THEN "sent" ELSE "send_failed")
    /\ i' = i + 1
    /\ pc' = IF i + 1 = ManualMails THEN "final" ELSE "loop"
    /\ UNCHANGED <<script, healthVars, provResp, mailbox, debugVars, injectVars,
                   pageVars>>

\* main: the closing notes
ManualFinal ==
    /\ script = "manual"
    /\ pc = "final"
    /\ out' = Append(out, "complete")
    /\ pc' = "done"
    /\ UNCHANGED <<script, healthVars, provResp, mailbox, smtpLog, debugVars,
                   injectVars, i, pageVars>>

--------------------------------------------------------------------------
(* test_websocket_validation.py                                            *)

\* main: "if not mailbox_info: print(terminated); return"
AfterIdFormat(mb) == IF mb.some THEN "page" ELSE "done"

\* main: test_mailbox_id_format() and the test of its result
ValidCreate ==
    /\ script = "valid"
    /\ pc = "create"
    /\ \E r \in ProvisionResponses(script) :
          LET res == test_mailbox_id_format(r) IN
          /\ provResp' = r
          /\ mailbox' = res.mailbox
          /\ out' = out \o res.msgs \o
                       (IF AfterIdFormat(res.mailbox) = "done" THEN <<"terminated">> ELSE <<>>)
          /\ pc' = AfterIdFormat(res.mailbox)
    /\ UNCHANGED <<script, healthVars, smtpLog, debugVars, injectVars, i, pageVars>>

\* main: create_websocket_test_html(mailbox_id, token), then the next-step
\* notes.  open() of the relative path raises when the directory is missing,
\* and nothing catches it.
ValidPage ==
    /\ script = "valid"
    /\ pc = "page"
    /\ \E w \in {"written", "oserror"} :
          IF w = "written"
          THEN /\ page' = PageFor(mailbox.mailboxId, mailbox.token)
               /\ out' = out \o <<"page_created", "next_steps">>
               /\ pc' = "done"
          ELSE /\ page' = page
               /\ out' = Append(out, "traceback")
               /\ pc' = "crashed"
    /\ UNCHANGED <<script, healthVars, provResp, mailbox, smtpLog, debugVars,
                   injectVars, i, socket, isConnected, conn, confirmed, emitted,
                   subscribed, refused>>

--------------------------------------------------------------------------
(* The generated probe page (the script block of the HTML)                 *)

\* the characters a backslash followed by c stands for in a JavaScript
\* string literal, for the characters identifiers are made of here: a line
\* feed after the backslash is a line continuation, \b and \f are control
\* characters, an octal digit starts an octal escape (taken as one code
\* unit), every other character stands for itself
JsEscape(c) ==
    CASE c = "LF" -> <<>>
      [] c = "b" -> <<"BS">>
      [] c = "f" -> <<"FF">>
      [] c \in {"0", "1", "2", "3", "4", "5", "6", "7"} -> <<"OCT">>
      [] OTHER -> <<c>>

\* the browser reading the text the f-string put between the quotes of
\* const MAILBOX_ID = '{mailbox_id}', from position pos: ok is FALSE when
\* the statement is no valid JavaScript (a raw line feed, a quote that ends
\* the literal early, a backslash that takes the closing quote), val is
\* the string the constant holds
RECURSIVE JsLiteral(_, _)
JsLiteral(s, pos) ==
    IF pos > Len(s) THEN [ok |-> TRUE, val |-> <<>>]
    ELSE IF s[pos] \in {"LF", "'"} THEN [ok |-> FALSE, val |-> <<>>]
    ELSE IF s[pos] = "\\"
         THEN IF pos = Len(s) THEN [ok |-> FALSE, val |-> <<>>]
              ELSE LET rest == JsLiteral(s, pos + 2) IN
                   [ok |-> rest.ok, val |-> JsEscape(s[pos + 1]) \o rest.val]
    ELSE LET rest == JsLiteral(s, pos + 1) IN
         [ok |-> rest.ok, val |-> <<s[pos]>> \o rest.val]

\* the script block of the page loads
ScriptLoads(id) == JsLiteral(id.s, 1).ok

\* the value of the page's constant MAILBOX_ID for the identifier the page
\* was generated with
JsConst(id) == StrId(JsLiteral(id.s, 1).val)

PageUsable == page.ready /\ ScriptLoads(page.MAILBOX_ID)

\* the sockets not yet created
Unused == {k \in 1..MaxSockets : conn[k] = "unused"}

\* a connect() that leaves the existing socket as it is
OldSocketAfterConnect_LeftOpen(st) == st

\* connect(): "if (socket) { socket.disconnect(); }": the state of the
\* existing socket when the new one is made
OldSocketAfterConnect(st) == "closed"

\* connect(): the old socket, if any, is disconnected (its disconnect
\* handler runs at once when it was connected), then io(...) makes a new one
PageConnect ==
    /\ PageUsable
    /\ Unused # {}
    /\ LET new == CHOOSE k \in Unused : \A m \in Unused : k <= m IN
       /\ conn' = [k \in 1..MaxSockets |->
                      IF k = new THEN "connecting"
                      ELSE IF k = socket THEN OldSocketAfterConnect(conn[k])
                      ELSE conn[k]]
       /\ socket' = new
    /\ isConnected' = IF socket # 0 /\ conn[socket] = "connected" THEN FALSE
                      ELSE isConnected
    /\ confirmed' = FALSE
    /\ subscribed' = FALSE
    /\ UNCHANGED <<script, pc, healthVars, provResp, mailbox, out, smtpLog,
                   debugVars, injectVars, i, page, emitted, refused>>

\* socket.on('connect')
OnConnect ==
    /\ socket # 0
    /\ conn[socket] = "connecting"
    /\ conn' = [conn EXCEPT ![socket] = "connected"]
    /\ isConnected' = TRUE
    /\ UNCHANGED <<script, pc, healthVars, provResp, mailbox, out, smtpLog,
                   debugVars, injectVars, i, page, socket, confirmed, emitted,
                   subscribed, refused>>

\* socket.on('disconnect'): the transport dropped; the client reconnects
OnDisconnect ==
    /\ socket # 0
    /\ conn[socket] = "connected"
    /\ conn' = [conn EXCEPT ![socket] = "connecting"]
    /\ isConnected' = FALSE
    /\ confirmed' = FALSE
    /\ subscribed' = FALSE
    /\ UNCHANGED <<script, pc, healthVars, provResp, mailbox, out, smtpLog,
                   debugVars, injectVars, i, page, socket, emitted, refused>>

\* socket.on('connectionEstablished')
OnConnectionEstablished ==
    /\ socket # 0
    /\ conn[socket] = "connected"
    /\ ~confirmed
    /\ confirmed' = TRUE
    /\ UNCHANGED <<script, pc, healthVars, provResp, mailbox, out, smtpLog,
                   debugVars, injectVars, i, page, socket, isConnected, conn,
                   emitted, subscribed, refused>>

\* a subscribe payload
Subscribe(k, id, t) == [sock |-> k, mailboxId |-> id, token |-> t]

\* subscribe(): "if (!socket || !isConnected) { log(...); return; }"
SubscribeAllowed == socket # 0 /\ isConnected

PageSubscribe ==
    /\ PageUsable
    /\ IF SubscribeAllowed
       THEN /\ Len(emitted) < MaxEmits
            /\ emitted' = Append(emitted, Subscribe(socket, JsConst(page.MAILBOX_ID),
                                                    page.TOKEN))
            /\ refused' = FALSE
       ELSE /\ emitted' = emitted
            /\ refused' = TRUE
    /\ UNCHANGED <<script, pc, healthVars, provResp, mailbox, out, smtpLog,
                   debugVars, injectVars, i, page, socket, isConnected, conn,
                   confirmed, subscribed>>

\* the server registers a subscribe request of the connected socket
ServerSubscribe ==
    /\ socket # 0
    /\ conn[socket] = "connected"
    /\ ~subscribed
    /\ \E k \in 1..Len(emitted) : emitted[k].sock = socket
    /\ subscribed' = TRUE
    /\ UNCHANGED <<script, pc, healthVars, provResp, mailbox, out, smtpLog,
                   debugVars, injectVars, i, page, socket, isConnected, conn,
                   confirmed, emitted, refused>>

\* disconnect()
PageDisconnect ==
    /\ PageUsable
    /\ socket # 0
    /\ conn' = [conn EXCEPT ![socket] = "closed"]
    /\ socket' = 0
    /\ isConnected' = FALSE
    /\ confirmed' = FALSE
    /\ subscribed' = FALSE
    /\ UNCHANGED <<script, pc, healthVars, provResp, mailbox, out, smtpLog,
                   debugVars, injectVars, i, page, emitted, refused>>

PageStep ==
    \/ PageConnect
    \/ OnConnect
    \/ OnDisconnect
    \/ OnConnectionEstablished
    \/ PageSubscribe
    \/ ServerSubscribe
    \/ PageDisconnect

--------------------------------------------------------------------------
(* Specifications: one per script, and all of them together                *)

InitHealth == Init /\ script = "health"
InitDebug == Init /\ script = "debug"
InitInject == Init /\ script = "inject"
InitPush == Init /\ script = "push"
InitValid == Init /\ script = "valid"
InitManual == Init /\ script = "manual"

NextHealth == CheckService

NextDebug ==
    \/ CheckService
    \/ DebugCreate
    \/ DebugSend
    \/ DebugWait
    \/ DebugCheck
    \/ DebugSummary

NextInject ==
    \/ InjectSend
    \/ InjectReport

NextPush ==
    \/ PushCreate
    \/ PushOpenPage
    \/ PushEnter
    \/ PushSend
    \/ PushHealth
    \/ PushFinal
    \/ PageStep

NextValid ==
    \/ ValidCreate
    \/ ValidPage
    \/ PageStep

NextManual ==
    \/ ManualEnter
    \/ ManualSend
    \/ ManualFinal

Next ==
    \/ NextHealth
    \/ NextDebug
    \/ NextInject
    \/ NextPush
    \/ NextValid
    \/ NextManual

SpecHealth == InitHealth /\ [][NextHealth]_vars
SpecDebug == InitDebug /\ [][NextDebug]_vars
SpecInject == InitInject /\ [][NextInject]_vars
SpecPush == InitPush /\ [][NextPush]_vars
SpecValid == InitValid /\ [][NextValid]_vars
SpecManual == InitManual /\ [][NextManual]_vars
Spec == Init /\ [][Next]_vars

\* simple_debug.py is one synchronous thread: a step that can be taken is
\* taken (a blocked network call returns or raises, a sleep ends)
FairSpecDebug == SpecDebug /\ WF_vars(NextDebug)

--------------------------------------------------------------------------
(* Properties                                                              *)

Contains(seq, x) == \E k \in 1..Len(seq) : seq[k] = x
Last(seq) == seq[Len(seq)]

\* the provisioning call has been answered and gave no mailbox
ProvisionFailed == provResp.net # "none" /\ ~mailbox.some

\* the lines a script prints when provisioning fails
FailureLines == {"exception", "http_error", "api_error", "create_failed"}

WellFormedEnvelope(r) ==
    /\ r.net = "ok"
    /\ r.body.json = "dict"
    /\ r.body.success = "true"
    /\ r.body.data = "dict"
    /\ r.body.has = {"address", "id", "token"}

\* C2 as stated: create_mailbox returns a Mailbox with exactly the
\* envelope's address, id and token for every 2xx response with a
\* well-formed success envelope, and no mailbox for every other response.
C2_Every2xx ==
    (script = "debug" /\ provResp.net # "none") =>
        IF WellFormedEnvelope(provResp) /\ provResp.status \in 200..299
        THEN mailbox = Mailbox(provResp.body.address, provResp.body.id,
                               provResp.body.token)
        ELSE mailbox = None

\* C2 amended: the same with "status 200 or 201" in place of "2xx": any
\* other status, 2xx or not, gives no mailbox.
C2_Only200And201 ==
    (script = "debug" /\ provResp.net # "none") =>
        IF WellFormedEnvelope(provResp) /\ provResp.status \in {200, 201}
        THEN mailbox = Mailbox(provResp.body.address, provResp.body.id,
                               provResp.body.token)
        ELSE mailbox = None

C2_Witness ==
    /\ script = "debug"
    /\ provResp.net = "ok"
    /\ provResp.status = 201
    /\ WellFormedEnvelope(provResp)
    /\ mailbox = Mailbox("addr2", StrId(Rep("9", IdLen)), "tok1")

\* the sessions of smtpLog that ran to their end
Completed == {k \in 1..Len(smtpLog) : smtpLog[k].outcome = "ok"}

\* range(n) has this many elements
RangeLen(n) == IF n > 0 THEN n ELSE 0

\* C3: the injector makes exactly n send attempts whatever fails (one per
\* iteration so far, n when the loop is over), and success_count is the
\* number of attempts that completed without raising, between 0 and n.
C3_AttemptsAndCount ==
    script = "inject" =>
        /\ Len(smtpLog) = i
        /\ i <= RangeLen(multiple)
        /\ success_count = Cardinality(Completed)
        /\ 0 <= success_count /\ success_count <= RangeLen(multiple)
        /\ pc = "done" => Len(smtpLog) = RangeLen(multiple)

C3_Witness ==
    /\ script = "inject"
    /\ pc = "done"
    /\ multiple = 3
    /\ smtpLog[1].outcome = "sendmail_fail"
    /\ smtpLog[2].outcome = "ok"
    /\ smtpLog[3].outcome = "quit_fail"
    /\ success_count = 1

C5_BothShapes ==
    (script = "debug" /\ mailResp.net = "ok" /\ mailResp.status = 200) =>
        /\ (mailResp.body.json = "dict" /\ mailResp.body.success = "true"
              /\ mailResp.body.data = "list")
           => emails = Emails("list", mailResp.body.n)
        /\ mailResp.body.json = "list"
           => emails = Emails("list", mailResp.body.n)

\* a response is malformed: a non-200 status, a body that is neither a
\* success envelope nor a list, or a data member that is not a list
Malformed(r) ==
    /\ r.net = "ok"
    /\ \/ r.status # 200
       \/ r.body.json \in {"invalid", "scalar"}
       \/ r.body.json = "dict" /\ (r.body.success # "true" \/ r.body.data = "absent")
       \/ r.body.json = "dict" /\ r.body.data \notin {"absent", "list"}

\* C6: a malformed retrieval response counts as zero messages and is not
\* fatal: the verifier returns an empty result and the run prints its
\* summary.
C6_MalformedIsEmpty ==
    (script = "debug" /\ Malformed(mailResp)) =>
        /\ emails.n = 0
        /\ pc = "done" => Contains(out, "summary")

\* the probe is connected, confirmed by the server, and its subscription
\* for the provisioned mailbox is registered
ProbeReady ==
    /\ page.ready
    /\ page.MAILBOX_ID = mailbox.mailboxId
    /\ page.TOKEN = mailbox.token
    /\ socket # 0
    /\ conn[socket] = "connected"
    /\ confirmed
    /\ subscribed

\* C7 as stated: the first SMTP session is opened only when the probe is
\* connected and subscribed.
C7_SubscribedBeforeInject ==
    [][(script = "push" /\ smtpLog = <<>> /\ smtpLog' # <<>>) => ProbeReady]_vars

\* the position of the first x in seq, 0 when there is none
First(seq, x) ==
    IF Contains(seq, x) THEN CHOOSE k \in 1..Len(seq) :
                                /\ seq[k] = x
                                /\ \A m \in 1..(k - 1) : seq[m] # x
    ELSE 0

\* C7 amended: no SMTP session is opened before the connect-and-subscribe
\* steps were printed and the operator then pressed Enter; the script does
\* not observe the probe.
C7_EnterBeforeInject ==
    (script = "push" /\ smtpLog # <<>>) =>
        /\ First(out, "instructions") > 0
        /\ First(out, "enter") > First(out, "instructions")
        /\ \A k \in 1..Len(out) :
              out[k] \in {"sent", "send_failed"} => k > First(out, "enter")

C7_Witness ==
    /\ script = "push"
    /\ Len(smtpLog) = 1
    /\ ProbeReady
    /\ Len(emitted) = 1

\* a health response is a failure: HTTP 500, a connection error, or a body
\* that does not parse
HealthFailure(r) ==
    \/ r.net = "error"
    \/ r.net = "ok" /\ r.status = 500
    \/ r.net = "ok" /\ r.body.json = "invalid"

\* a health response is a 200 with the JSON object the service documents
HealthSuccess(r) == r.net = "ok" /\ r.status = 200 /\ r.body.json = "dict"

InjectionFailed == \E k \in 1..Len(smtpLog) : smtpLog[k].outcome # "ok"

IsObjectId(id) ==
    /\ id.t = "str"
    /\ Len(id.s) = IdLen
    /\ \A k \in 1..Len(id.s) : id.s[k] \in HexChars

\* C10: a string identifier that is not 24 hexadecimal characters is flagged and
\* the mailbox is still returned, the run going on to the page generation;
\* an identifier that is 24 hexadecimal characters is not flagged.
C10_MismatchFlaggedNotFatal ==
    (script = "valid" /\ WellFormedEnvelope(provResp)
        /\ provResp.status \in {200, 201} /\ provResp.body.id.t = "str") =>
        IF IsObjectId(provResp.body.id)
        THEN /\ ~Contains(out, "id_bad")
             /\ mailbox.some
        ELSE /\ Contains(out, "id_bad")
             /\ ~Contains(out, "id_ok")
             /\ mailbox.some
             /\ mailbox.mailboxId = provResp.body.id
             /\ ~Contains(out, "terminated")
             /\ pc # "create"

\* C11 as stated: in every run each SMTP session goes to the address of the
\* mailbox provisioned in that run, and every retrieval call carries the
\* identifier and the token of that mailbox.
C11_RecipientIsProvisioned ==
    /\ \A k \in 1..Len(smtpLog) :
          mailbox.some /\ smtpLog[k].to = mailbox.address
    /\ \A k \in 1..Len(getLog) :
          mailbox.some /\ getLog[k] = Retrieval(mailbox.mailboxId, mailbox.token)

\* C11 amended: in the runs that provision a mailbox (simple_debug and
\* test_frontend_websocket) every SMTP session goes to the address the
\* issuance response carried and every retrieval call carries the id and
\* the token of that same response; manual_websocket_test and
\* send_test_email provision nothing and send to a fixed address and to the
\* address of the command line.
C11_ProvisioningRunsUseTheirMailbox ==
    /\ script \in {"debug", "push"} =>
          /\ (smtpLog # <<>> \/ getLog # <<>>) =>
                /\ WellFormedEnvelope(provResp)
                /\ mailbox = Mailbox(provResp.body.address, provResp.body.id,
                                     provResp.body.token)
          /\ \A k \in 1..Len(smtpLog) : smtpLog[k].to = provResp.body.address
          /\ \A k \in 1..Len(getLog) :
                getLog[k] = Retrieval(provResp.body.id, provResp.body.token)
    /\ script \in {"manual", "inject"} =>
          /\ mailbox = None
          /\ provResp = NoResponse
          /\ getLog = <<>>
          /\ \A k \in 1..Len(smtpLog) :
                smtpLog[k].to = IF script = "manual" THEN ManualAddress ELSE ArgEmail

C11_Witness ==
    /\ script = "debug"
    /\ pc = "done"
    /\ provResp.body.address = "addr2"
    /\ provResp.body.token = "tok2"
    /\ provResp.body.id = StrId(Rep("9", IdLen))
    /\ Len(smtpLog) = 1
    /\ smtpLog[1].to = "addr2"
    /\ getLog = <<Retrieval(StrId(Rep("9", IdLen)), "tok2")>>

\* the service made the accepted message retrievable before the retrieval
\* call: the call is answered 200 with the n >= 1 stored messages, in the
\* envelope {success, data: [...]} or as a bare list
ServedAll(r) ==
    /\ r.net = "ok"
    /\ r.status = 200
    /\ \/ r.body.json = "dict" /\ r.body.success = "true" /\ r.body.data = "list"
       \/ r.body.json = "list"
    /\ r.body.n >= 1

\* C12: when the injected message was accepted and the service serves the
\* n >= 1 stored messages to the retrieval call, the verifier eventually
\* observes n messages and the run reports them as received.
C12_EventuallyReportsN ==
    (script = "debug" /\ Cardinality(Completed) >= 1 /\ ServedAll(mailResp))
        ~> (/\ mailResp.net = "ok"
            /\ emails = Emails("list", mailResp.body.n)
            /\ Contains(out, "received"))

\* C13: for both content types, with --multiple > 1 the k-th message of the
\* call carries the given subject with its index k appended, so the
\* subjects of the call are pairwise distinct; with --multiple = 1 the
\* subject is the given subject unchanged.
C13_SubjectsDisambiguated ==
    script = "inject" =>
        /\ multiple > 1 =>
              /\ \A k \in 1..Len(smtpLog) :
                    smtpLog[k].subject = "arg" /\ smtpLog[k].idx = k
              /\ \A k, m \in 1..Len(smtpLog) :
                    k # m => <<smtpLog[k].subject, smtpLog[k].idx>>
                                # <<smtpLog[m].subject, smtpLog[m].idx>>
        /\ multiple = 1 =>
              \A k \in 1..Len(smtpLog) :
                    smtpLog[k].subject = "arg" /\ smtpLog[k].idx = 0

\* the counters the claim names: listening port, running flag,
\* connected-client count, subscription count, broadcast success and
\* failure counts
SurfacedCounters == {"port", "isRunning", "connectedClients",
                     "totalSubscriptions", "successfulBroadcasts",
                     "failedBroadcasts"}

\* member f is absent from the parsed health response r
AbsentFrom(r, f) == r.body.section # "dict" \/ f \notin r.body.has

\* C14: for each surfaced counter, when the member is absent from a health
\* response that was answered 200 with a JSON object, the value printed for
\* it is "unknown", never a concrete value such as 0 or False.
C14_AbsentIsUnknown ==
    script = "health" =>
        \A k \in 1..Len(Services) :
            (k < svc /\ HealthSuccess(healthResp[k])) =>
                \A f \in SurfacedCounters \cap FieldsOf(Services[k]) :
                    AbsentFrom(healthResp[k], f) => report[k].shown[f] = "unknown"

\* C15: no exception leaves a component: whatever fails in provisioning,
\* injection, retrieval, health check or page generation, no run ends with
\* an uncaught exception (a traceback and a non-zero exit status).
C15_NoExceptionEscapes ==
    /\ pc # "crashed"
    /\ ~Contains(out, "traceback")

\* the page holds a socket whose connect event came with no disconnect since
SocketUp == socket # 0 /\ conn[socket] = "connected"

\* a step that emits is taken while the socket is up, and a subscribe()
\* that logs the error emits nothing and is taken while it is not
GuardedEmission ==
    /\ emitted' # emitted => SocketUp /\ Len(emitted') = Len(emitted) + 1
    /\ (refused' /\ ~refused) => (emitted' = emitted /\ ~SocketUp)

\* the guard of subscribe() alone
SubscribeIsGuarded == [][GuardedEmission]_vars

\* C16: in the probe page a subscribe request is emitted only while a
\* socket exists and its connection is up; a subscribe() attempted otherwise
\* emits nothing and logs an error; every emitted request carries exactly the
\* identifier and the token of the mailbox the page was generated for.
C16_SubscribeWhileConnected ==
    [][/\ GuardedEmission
       /\ emitted' # emitted =>
             /\ Last(emitted').mailboxId = mailbox.mailboxId
             /\ Last(emitted').token = mailbox.token]_vars

\* the sockets that are open: connecting or connected
OpenSockets == {k \in 1..MaxSockets : conn[k] \in {"connecting", "connected"}}

\* C17: in the probe page, whatever the clicks and socket events, at most
\* one socket is open at a time and it is the one the page refers to;
\* connect() closes the existing socket before it opens a new one; after
\* disconnect() the socket reference is null, the connected flag is false
\* and the socket is closed; the connected flag is never true while no
\* socket is open.
C17_OneSocketFlagFollows ==
    /\ [](/\ Cardinality(OpenSockets) <= 1
          /\ \A k \in OpenSockets : k = socket
          /\ isConnected => (socket # 0 /\ conn[socket] = "connected"))
    /\ [][/\ (socket # 0 /\ socket' # 0 /\ socket' # socket) =>
                (conn'[socket] = "closed" /\ OpenSockets' = {socket'})
          /\ (socket # 0 /\ socket' = 0) =>
                (~isConnected' /\ conn'[socket] = "closed" /\ OpenSockets' = {})]_vars

C17_Witness ==
    /\ script = "valid"
    /\ conn[1] = "closed"
    /\ conn[2] = "connected"
    /\ socket = 2
    /\ isConnected
    /\ Len(emitted) = 2
    /\ emitted[1].sock = 1
    /\ emitted[2].sock = 2

====
